---- MODULE Spec2Model ----
(***************************************************************************)
(* Model of telegram/_files/sticker.py: the value types Sticker,           *)
(* StickerSet and MaskPosition, their constructors, de_json, to_dict and   *)
(* the identity-attribute equality they inherit.                           *)
(*                                                                         *)
(* Python values are tagged records, so that values of different Python    *)
(* types can be compared: [none], [str], [int], [float], [bool], [list],   *)
(* [tuple], [dict], [obj, attrs] and, for a raised exception, [error].     *)
(***************************************************************************)
EXTENDS Integers, Sequences, FiniteSets, TLC

\* ---------------------------------------------------------------- bounds
MaxStickers == 2
MaxCalls == 2
MaxThreadOps == 2

\* ------------------------------------------------------- Python values
None == [none |-> TRUE]
PyStr(s) == [str |-> s]
PyInt(i) == [int |-> i]
PyFloat(x) == [float |-> x]
PyBool(b) == [bool |-> b]
PyList(s) == [list |-> s]
PyTuple(s) == [tuple |-> s]
PyDict(f) == [dict |-> f]
PyObj(cls, attrs) == [obj |-> cls, attrs |-> attrs]
Err(e) == [error |-> e]

EmptyMap == [k \in {} |-> None]

IsErr(v) == DOMAIN v = {"error"}
IsDict(v) == DOMAIN v = {"dict"}
IsList(v) == DOMAIN v = {"list"}
IsObj(v) == DOMAIN v = {"obj", "attrs"}

\* bool(v) is False: None, the empty mapping, the empty list
Falsy(v) ==
  \/ v = None
  \/ IsDict(v) /\ DOMAIN v.dict = {}
  \/ IsList(v) /\ Len(v.list) = 0

\* d.get(k) and d[k] = v on the key/value function of a mapping
Get(d, k) == IF k \in DOMAIN d THEN d[k] ELSE None
Set(d, k, v) == [x \in DOMAIN d \cup {k} |-> IF x = k THEN v ELSE d[x]]
Del(d, k) == [x \in DOMAIN d \ {k} |-> d[x]]

\* f(**kw) for a parameter with a default of None
Arg(kw, k) == Get(kw, k)

\* int(v): an int is kept, a decimal string is parsed, anything else raises
int(v) ==
  IF DOMAIN v = {"int"} THEN v
  ELSE IF v = PyStr("1") THEN PyInt(1)
  ELSE IF v = PyStr("2") THEN PyInt(2)
  ELSE IF DOMAIN v = {"str"} THEN Err("ValueError")
  ELSE Err("TypeError")

\* the session object handed to de_json
Bot == PyObj("Bot", EmptyMap)

\* ------------------------------------------- TelegramObject (base type)
\* TelegramObject._parse_data: None stays None, a mapping is copied
\* (dict.copy(), so the writes of the caller land in the copy); any other
\* object has no copy() method
parse_data(data) ==
  IF data = None THEN None
  ELSE IF IsDict(data) THEN PyDict(data.dict)
  ELSE Err("AttributeError")

\* TelegramObject.to_dict: every slot except bot and the private ones, None
\* values omitted, values that have a to_dict flattened recursively
RECURSIVE TelegramObject_to_dict(_)
TelegramObject_to_dict(o) ==
  LET keys == {k \in DOMAIN o.attrs :
                 k \notin {"bot", "_id_attrs"} /\ o.attrs[k] # None}
  IN PyDict([k \in keys |->
             IF IsObj(o.attrs[k]) THEN TelegramObject_to_dict(o.attrs[k])
             ELSE o.attrs[k]])

\* TelegramObject.__eq__: instances of the same class compare their
\* _id_attrs, anything else falls back to identity
TelegramObject_eq(a, b) ==
  IF a.obj = b.obj THEN a.attrs["_id_attrs"] = b.attrs["_id_attrs"]
  ELSE FALSE

\* ------------------------------------------------------------ PhotoSize
PhotoSize_required == {"file_id", "file_unique_id", "width", "height"}

PhotoSize_init(kw) ==
  IF ~(PhotoSize_required \subseteq DOMAIN kw) THEN Err("TypeError")
  ELSE PyObj("PhotoSize",
           ("file_id" :> kw["file_id"]) @@
           ("file_unique_id" :> kw["file_unique_id"]) @@
           ("width" :> kw["width"]) @@
           ("height" :> kw["height"]) @@
           ("file_size" :> Arg(kw, "file_size")) @@
           ("bot" :> Arg(kw, "bot")) @@
           ("_id_attrs" :> PyTuple(<<kw["file_unique_id"]>>)))

\* PhotoSize.de_json is the inherited TelegramObject.de_json
PhotoSize_de_json(data) ==
  LET copy == parse_data(data)
  IN IF IsErr(copy) THEN copy
     ELSE IF copy = None THEN None
     ELSE IF "bot" \in DOMAIN copy.dict THEN Err("TypeError")
     ELSE PhotoSize_init(Set(copy.dict, "bot", Bot))

\* --------------------------------------------------------- MaskPosition
MaskPosition_required == {"point", "x_shift", "y_shift", "scale"}

\* MaskPosition.__init__(point, x_shift, y_shift, scale, **_kwargs)
MaskPosition_init(kw) ==
  IF ~(MaskPosition_required \subseteq DOMAIN kw) THEN Err("TypeError")
  ELSE PyObj("MaskPosition",
           ("point" :> kw["point"]) @@
           ("x_shift" :> kw["x_shift"]) @@
           ("y_shift" :> kw["y_shift"]) @@
           ("scale" :> kw["scale"]) @@
           ("_id_attrs" :> PyTuple(<<kw["point"], kw["x_shift"],
                                   kw["y_shift"], kw["scale"]>>)))

\* MaskPosition.de_json; ret is the value returned or the exception raised,
\* data is the caller's mapping after the call
MaskPosition_de_json(data) ==
  LET copy == parse_data(data)
  IN IF IsErr(copy) THEN [ret |-> copy, data |-> data]
     ELSE IF copy = None THEN [ret |-> None, data |-> data]
     ELSE [ret |-> MaskPosition_init(copy.dict), data |-> data]

\* -------------------------------------------------------------- Sticker
\* _BaseThumbedMedium.__init__ / _BaseMedium.__init__: stores the file
\* attributes and makes file_unique_id the only identity attribute
BaseThumbedMedium_init(file_id, file_unique_id, file_size, thumb, bot) ==
  ("file_id" :> file_id) @@
  ("file_unique_id" :> file_unique_id) @@
  ("file_size" :> file_size) @@
  ("thumb" :> thumb) @@
  ("bot" :> bot) @@
  ("_id_attrs" :> PyTuple(<<file_unique_id>>))

Sticker_required ==
  {"file_id", "file_unique_id", "width", "height", "is_animated"}

\* variant of the constructor that sets its own identity attributes,
\* self._id_attrs = (self.file_unique_id, self.width)
Sticker_init_id_with_width(kw) ==
  IF ~(Sticker_required \subseteq DOMAIN kw) THEN Err("TypeError")
  ELSE LET base == BaseThumbedMedium_init(kw["file_id"],
                     kw["file_unique_id"], Arg(kw, "file_size"),
                     Arg(kw, "thumb"), Arg(kw, "bot"))
           width == int(kw["width"])
           height == int(kw["height"])
       IN IF IsErr(width) THEN width
          ELSE IF IsErr(height) THEN height
          ELSE PyObj("Sticker",
                 ("_id_attrs" :>
                    PyTuple(<<kw["file_unique_id"], width>>)) @@
                 base @@
                 ("width" :> width) @@
                 ("height" :> height) @@
                 ("is_animated" :> kw["is_animated"]) @@
                 ("emoji" :> Arg(kw, "emoji")) @@
                 ("set_name" :> Arg(kw, "set_name")) @@
                 ("mask_position" :> Arg(kw, "mask_position")))

\* variant of the constructor in which width has a default
Sticker_init_width_default(kw) ==
  IF ~((Sticker_required \ {"width"}) \subseteq DOMAIN kw)
    THEN Err("TypeError")
  ELSE LET base == BaseThumbedMedium_init(kw["file_id"],
                     kw["file_unique_id"], Arg(kw, "file_size"),
                     Arg(kw, "thumb"), Arg(kw, "bot"))
           width == IF "width" \in DOMAIN kw THEN int(kw["width"])
                    ELSE PyInt(0)
           height == int(kw["height"])
       IN IF IsErr(width) THEN width
          ELSE IF IsErr(height) THEN height
          ELSE PyObj("Sticker",
                 base @@
                 ("width" :> width) @@
                 ("height" :> height) @@
                 ("is_animated" :> kw["is_animated"]) @@
                 ("emoji" :> Arg(kw, "emoji")) @@
                 ("set_name" :> Arg(kw, "set_name")) @@
                 ("mask_position" :> Arg(kw, "mask_position")))

\* variant of the constructor without **_kwargs
Sticker_init_no_kwargs(kw) ==
  IF ~(Sticker_required \subseteq DOMAIN kw) THEN Err("TypeError")
  ELSE IF ~(DOMAIN kw \subseteq
              Sticker_required \cup {"thumb", "emoji", "set_name",
                                     "mask_position", "file_size", "bot"})
    THEN Err("TypeError")
  ELSE LET base == BaseThumbedMedium_init(kw["file_id"],
                     kw["file_unique_id"], Arg(kw, "file_size"),
                     Arg(kw, "thumb"), Arg(kw, "bot"))
           width == int(kw["width"])
           height == int(kw["height"])
       IN IF IsErr(width) THEN width
          ELSE IF IsErr(height) THEN height
          ELSE PyObj("Sticker",
                 base @@
                 ("width" :> width) @@
                 ("height" :> height) @@
                 ("is_animated" :> kw["is_animated"]) @@
                 ("emoji" :> Arg(kw, "emoji")) @@
                 ("set_name" :> Arg(kw, "set_name")) @@
                 ("mask_position" :> Arg(kw, "mask_position")))

\* Sticker.__init__(file_id, file_unique_id, width, height, is_animated,
\*                  thumb, emoji, file_size, set_name, mask_position, bot,
\*                  **_kwargs)
Sticker_init(kw) ==
  IF ~(Sticker_required \subseteq DOMAIN kw) THEN Err("TypeError")
  ELSE LET base == BaseThumbedMedium_init(kw["file_id"],
                     kw["file_unique_id"], Arg(kw, "file_size"),
                     Arg(kw, "thumb"), Arg(kw, "bot"))
           width == int(kw["width"])
           height == int(kw["height"])
       IN IF IsErr(width) THEN width
          ELSE IF IsErr(height) THEN height
          ELSE PyObj("Sticker",
                 base @@
                 ("width" :> width) @@
                 ("height" :> height) @@
                 ("is_animated" :> kw["is_animated"]) @@
                 ("emoji" :> Arg(kw, "emoji")) @@
                 ("set_name" :> Arg(kw, "set_name")) @@
                 ("mask_position" :> Arg(kw, "mask_position")))

\* variant of Sticker.de_json that reads data['thumb'] instead of
\* data.get('thumb')
Sticker_de_json_subscript(data) ==
  LET copy == parse_data(data)
      thumb == PhotoSize_de_json(copy.dict["thumb"])
      d1 == Set(copy.dict, "thumb", thumb)
      mask_position ==
        MaskPosition_de_json(Get(d1, "mask_position")).ret
      d2 == Set(d1, "mask_position", mask_position)
  IN IF IsErr(copy) THEN [ret |-> copy, data |-> data]
     ELSE IF Falsy(copy) THEN [ret |-> None, data |-> data]
     ELSE IF "thumb" \notin DOMAIN copy.dict
       THEN [ret |-> Err("KeyError"), data |-> data]
     ELSE IF IsErr(thumb) THEN [ret |-> thumb, data |-> data]
     ELSE IF IsErr(mask_position)
       THEN [ret |-> mask_position, data |-> data]
     ELSE IF "bot" \in DOMAIN d2
       THEN [ret |-> Err("TypeError"), data |-> data]
     ELSE [ret |-> Sticker_init(Set(d2, "bot", Bot)), data |-> data]

\* Sticker.de_json: works on the copy made by _parse_data, so the caller's
\* mapping is left as it was
Sticker_de_json(data) ==
  LET copy == parse_data(data)
      thumb == PhotoSize_de_json(Get(copy.dict, "thumb"))
      d1 == Set(copy.dict, "thumb", thumb)
      mask_position ==
        MaskPosition_de_json(Get(d1, "mask_position")).ret
      d2 == Set(d1, "mask_position", mask_position)
  IN IF IsErr(copy) THEN [ret |-> copy, data |-> data]
     ELSE IF Falsy(copy) THEN [ret |-> None, data |-> data]
     ELSE IF IsErr(thumb) THEN [ret |-> thumb, data |-> data]
     ELSE IF IsErr(mask_position)
       THEN [ret |-> mask_position, data |-> data]
     ELSE IF "bot" \in DOMAIN d2
       THEN [ret |-> Err("TypeError"), data |-> data]
     ELSE [ret |-> Sticker_init(Set(d2, "bot", Bot)), data |-> data]

\* TelegramObject.de_list for Sticker: maps Sticker.de_json over the
\* elements in order; an exception raised for an element propagates
Sticker_de_list(data) ==
  IF Falsy(data) THEN PyList(<<>>)
  ELSE IF ~IsList(data) THEN Err("TypeError")
  ELSE LET rs == [i \in 1..Len(data.list) |->
                    Sticker_de_json(data.list[i]).ret]
           bad == {i \in 1..Len(data.list) : IsErr(rs[i])}
       IN IF bad # {}
            THEN rs[CHOOSE i \in bad : \A j \in bad : i <= j]
            ELSE PyList(rs)

\* ----------------------------------------------------------- StickerSet
StickerSet_required ==
  {"name", "title", "is_animated", "contains_masks", "stickers"}

\* variant of the constructor whose identity attributes are (name, title)
StickerSet_init_id_name_title(kw) ==
  IF ~(StickerSet_required \subseteq DOMAIN kw) THEN Err("TypeError")
  ELSE PyObj("StickerSet",
         ("name" :> kw["name"]) @@
         ("title" :> kw["title"]) @@
         ("is_animated" :> kw["is_animated"]) @@
         ("contains_masks" :> kw["contains_masks"]) @@
         ("stickers" :> kw["stickers"]) @@
         ("thumb" :> Arg(kw, "thumb")) @@
         ("_id_attrs" :> PyTuple(<<kw["name"], kw["title"]>>)))

\* StickerSet.__init__(name, title, is_animated, contains_masks, stickers,
\*                     thumb, **_kwargs)
StickerSet_init(kw) ==
  IF ~(StickerSet_required \subseteq DOMAIN kw) THEN Err("TypeError")
  ELSE PyObj("StickerSet",
         ("name" :> kw["name"]) @@
         ("title" :> kw["title"]) @@
         ("is_animated" :> kw["is_animated"]) @@
         ("contains_masks" :> kw["contains_masks"]) @@
         ("stickers" :> kw["stickers"]) @@
         ("thumb" :> Arg(kw, "thumb")) @@
         ("_id_attrs" :> PyTuple(<<kw["name"]>>)))

\* StickerSet.de_json: no copy is made, data['thumb'] and data['stickers']
\* are assigned in the mapping the caller passed
StickerSet_de_json(data) ==
  LET thumb == PhotoSize_de_json(Get(data.dict, "thumb"))
      d1 == Set(data.dict, "thumb", thumb)
      stickers == Sticker_de_list(Get(d1, "stickers"))
      d2 == Set(d1, "stickers", stickers)
  IN IF Falsy(data) THEN [ret |-> None, data |-> data]
     ELSE IF IsErr(thumb) THEN [ret |-> thumb, data |-> data]
     ELSE IF IsErr(stickers) THEN [ret |-> stickers, data |-> PyDict(d1)]
     ELSE IF "bot" \in DOMAIN d2
       THEN [ret |-> Err("TypeError"), data |-> PyDict(d2)]
     ELSE [ret |-> StickerSet_init(Set(d2, "bot", Bot)),
           data |-> PyDict(d2)]

\* [s.to_dict() for s in data.get('stickers')]
FlattenStickers(stickers) ==
  IF ~IsList(stickers) THEN Err("TypeError")
  ELSE IF \E i \in 1..Len(stickers.list) : ~IsObj(stickers.list[i])
    THEN Err("AttributeError")
  ELSE PyList([i \in 1..Len(stickers.list) |->
                 TelegramObject_to_dict(stickers.list[i])])

\* variant of StickerSet.to_dict without the stickers override
StickerSet_to_dict_base_only(o) ==
  TelegramObject_to_dict(o)

\* StickerSet.to_dict
StickerSet_to_dict(o) ==
  LET data == TelegramObject_to_dict(o)
      flat == FlattenStickers(Get(data.dict, "stickers"))
  IN IF IsErr(flat) THEN flat
     ELSE PyDict(Set(data.dict, "stickers", flat))

\* ------------------------------------------------------- bounded inputs
Restrict(f, S) == [k \in S |-> f[k]]
SeqsUpTo(S, n) == UNION {[1..m -> S] : m \in 0..n}

ExtraKeys == {"foo", "bot"}
WithExtra(d, k) == PyDict(Set(d.dict, k, PyStr("x")))

ThumbRaw ==
  PyDict(("file_id" :> PyStr("t")) @@ ("file_unique_id" :> PyStr("tu")) @@
         ("width" :> PyInt(1)) @@ ("height" :> PyInt(1)))

MaskRaw(point) ==
  PyDict(("point" :> PyStr(point)) @@ ("x_shift" :> PyFloat(-1)) @@
         ("y_shift" :> PyFloat(0)) @@ ("scale" :> PyFloat(2)))

Sticker_optional ==
  {"thumb", "emoji", "set_name", "mask_position", "file_size"}

StickerRawFull(file_id, file_unique_id, width) ==
  ("file_id" :> PyStr(file_id)) @@
  ("file_unique_id" :> PyStr(file_unique_id)) @@
  ("width" :> width) @@ ("height" :> PyInt(1)) @@
  ("is_animated" :> PyBool(FALSE)) @@
  ("thumb" :> ThumbRaw) @@ ("emoji" :> PyStr("e")) @@
  ("set_name" :> PyStr("s")) @@ ("mask_position" :> MaskRaw("forehead")) @@
  ("file_size" :> PyInt(0))

StickerRaw(file_id, file_unique_id, width, opts) ==
  PyDict(Restrict(StickerRawFull(file_id, file_unique_id, width),
                  Sticker_required \cup opts))

ValidStickerPayloads ==
  {StickerRaw("a", u, w, opts) :
     u \in {"u1", "u2"}, w \in {PyInt(1), PyStr("2")},
     opts \in SUBSET Sticker_optional}

StickerPayloads ==
  ValidStickerPayloads
  \cup {None, PyDict(EmptyMap)}
  \cup {PyDict(Del(StickerRaw("a", "u1", PyInt(1), opts).dict, "width")) :
          opts \in {{}, Sticker_optional}}
  \cup {StickerRaw("a", "u1", PyStr("x"), {})}
  \cup {WithExtra(StickerRaw("a", "u1", PyInt(1), opts), k) :
          opts \in {{}, Sticker_optional}, k \in ExtraKeys}

MaskPositionPayloads ==
  {MaskRaw(p) : p \in {"forehead", "eyes", "mouth", "chin"}}
  \cup {None, PyDict(EmptyMap)}
  \cup {PyDict(Del(MaskRaw("chin").dict, k)) : k \in MaskPosition_required}
  \cup {WithExtra(MaskRaw(p), k) : p \in {"forehead", "chin"},
                                   k \in ExtraKeys}

\* raw elements of a stickers sequence: two valid ones, one without width,
\* one whose width is not a number, and the empty mapping
ElemRaw ==
  {StickerRaw("a", "u1", PyInt(1), {}),
   StickerRaw("b", "u2", PyStr("2"), Sticker_optional),
   PyDict(Del(StickerRaw("a", "u1", PyInt(1), {}).dict, "width")),
   PyDict(EmptyMap)}

StickerSetRaw(name, stickers, opts) ==
  PyDict(Restrict(("name" :> PyStr(name)) @@ ("title" :> PyStr("t")) @@
                  ("is_animated" :> PyBool(FALSE)) @@
                  ("contains_masks" :> PyBool(TRUE)) @@
                  ("stickers" :> PyList(stickers)) @@
                  ("thumb" :> ThumbRaw),
                  StickerSet_required \cup opts))

StickerSetPayloads ==
  {StickerSetRaw(n, st, opts) :
     n \in {"n1", "n2"}, st \in SeqsUpTo(ElemRaw, MaxStickers),
     opts \in {{}, {"thumb"}}}
  \cup {None, PyDict(EmptyMap)}
  \cup {PyDict(Del(StickerSetRaw("n1", <<>>, {}).dict, k)) :
          k \in {"name", "stickers"}}
  \cup {StickerSetRaw("n1", <<StickerRaw("a", "u1", PyStr("x"), {})>>, {})}
  \cup {WithExtra(StickerSetRaw("n1", st, opts), k) :
          st \in SeqsUpTo({StickerRaw("a", "u1", PyInt(1), {})}, 1),
          opts \in {{}, {"thumb"}}, k \in ExtraKeys}

\* objects built by the constructors
ThumbObj ==
  PhotoSize_init(ThumbRaw.dict)

StickerArgsFull(file_id, file_unique_id, width) ==
  ("thumb" :> ThumbObj) @@
  ("mask_position" :> MaskPosition_init(MaskRaw("forehead").dict)) @@
  StickerRawFull(file_id, file_unique_id, width)

StickerObj(file_id, file_unique_id, width, opts) ==
  Sticker_init(Restrict(StickerArgsFull(file_id, file_unique_id, width),
                        Sticker_required \cup opts))

StickerObjs ==
  {StickerObj("a", u, w, opts) :
     u \in {"u1", "u2"}, w \in {PyInt(1), PyStr("2")},
     opts \in SUBSET Sticker_optional}

OtherStickerObjs ==
  {StickerObj(f, u, PyInt(2), {}) : f \in {"a", "b"}, u \in {"u1", "u2"}}

SetElemObjs ==
  {StickerObj("a", "u1", PyInt(1), {}),
   StickerObj("b", "u2", PyInt(2), Sticker_optional),
   StickerObj("b", "u1", PyInt(2), {"emoji"})}

StickerSetObj(name, title, contains_masks, stickers, thumb) ==
  StickerSet_init(("name" :> PyStr(name)) @@ ("title" :> PyStr(title)) @@
                  ("is_animated" :> PyBool(FALSE)) @@
                  ("contains_masks" :> PyBool(contains_masks)) @@
                  ("stickers" :> PyList(stickers)) @@
                  ("thumb" :> thumb))

StickerSetObjs ==
  {StickerSetObj(n, "t", TRUE, st, th) :
     n \in {"n1", "n2"}, st \in SeqsUpTo(SetElemObjs, MaxStickers),
     th \in {None, ThumbObj}}

OtherStickerSetObjs ==
  {StickerSetObj(n, "t", TRUE, <<>>, None) : n \in {"n1", "n2"}}
  \cup {StickerSetObj(n, "t2", FALSE,
                       <<StickerObj("a", "u1", PyInt(1), {})>>, None) :
           n \in {"n1", "n2"}}

\* ---------------------------------------------------------------- state
Threads == {1, 2}
Unset == [unset |-> TRUE]

VARIABLES
  mode,      \* "deser": a caller deserializes payload; "object": threads
             \* use the object self
  kind,      \* the class under use
  payload,   \* the mapping object the caller passes to de_json
  payload0,  \* its contents before the first call
  results,   \* what each de_json call on payload returned or raised
  self,      \* the shared object
  self0,     \* its contents after construction
  other,     \* the object self is compared with
  rt,        \* de_json(to_dict(self)), once computed
  pc,        \* per thread: "idle" or inside StickerSet.to_dict
  local,     \* per thread: the local variable data of to_dict
  ret,       \* per thread: what its last to_dict call returned
  eqres,     \* per thread: what its last self == other returned
  ops        \* per thread: number of calls completed

vars == <<mode, kind, payload, payload0, results, self, self0, other, rt,
          pc, local, ret, eqres, ops>>

threadVars == <<pc, local, ret, eqres, ops>>
deserVars == <<payload, payload0, results>>

InitThreads ==
  /\ pc = [t \in Threads |-> "idle"]
  /\ local = [t \in Threads |-> Unset]
  /\ ret = [t \in Threads |-> Unset]
  /\ eqres = [t \in Threads |-> Unset]
  /\ ops = [t \in Threads |-> 0]

InitDeser ==
  /\ mode = "deser"
  /\ \/ kind = "Sticker" /\ payload \in StickerPayloads
     \/ kind = "StickerSet" /\ payload \in StickerSetPayloads
     \/ kind = "MaskPosition" /\ payload \in MaskPositionPayloads
  /\ payload0 = payload
  /\ results = <<>>
  /\ self = None /\ self0 = None /\ other = None /\ rt = Unset

InitObject ==
  /\ mode = "object"
  /\ \/ kind = "Sticker" /\ self \in StickerObjs
                         /\ other \in OtherStickerObjs
     \/ kind = "StickerSet" /\ self \in StickerSetObjs
                            /\ other \in OtherStickerSetObjs
  /\ self0 = self
  /\ rt = Unset
  /\ payload = None /\ payload0 = None /\ results = <<>>

Init == InitThreads /\ (InitDeser \/ InitObject)

\* -------------------------------------------------------------- actions
\* a caller runs X.de_json(payload, bot) on the mapping it holds
DeJson(k, r) ==
  /\ mode = "deser" /\ kind = k
  /\ Len(results) < MaxCalls
  /\ results' = Append(results, r.ret)
  /\ payload' = r.data
  /\ UNCHANGED <<mode, kind, payload0, self, self0, other, rt>>
  /\ UNCHANGED threadVars

Call_Sticker_de_json == DeJson("Sticker", Sticker_de_json(payload))
Call_StickerSet_de_json == DeJson("StickerSet", StickerSet_de_json(payload))
Call_MaskPosition_de_json ==
  DeJson("MaskPosition", MaskPosition_de_json(payload))

\* Sticker.de_json(self.to_dict(), bot)
Sticker_RoundTrip ==
  /\ mode = "object" /\ kind = "Sticker" /\ rt = Unset
  /\ rt' = Sticker_de_json(TelegramObject_to_dict(self)).ret
  /\ UNCHANGED <<mode, kind, self, self0, other>>
  /\ UNCHANGED deserVars /\ UNCHANGED threadVars

\* StickerSet.de_json(self.to_dict(), bot)
StickerSet_RoundTrip ==
  /\ mode = "object" /\ kind = "StickerSet" /\ rt = Unset
  /\ LET data == StickerSet_to_dict(self)
     IN rt' = IF IsErr(data) THEN data ELSE StickerSet_de_json(data).ret
  /\ UNCHANGED <<mode, kind, self, self0, other>>
  /\ UNCHANGED deserVars /\ UNCHANGED threadVars

\* thread t evaluates self == other
Equals(t) ==
  /\ mode = "object" /\ pc[t] = "idle" /\ ops[t] < MaxThreadOps
  /\ eqres' = [eqres EXCEPT ![t] = PyBool(TelegramObject_eq(self, other))]
  /\ ops' = [ops EXCEPT ![t] = @ + 1]
  /\ UNCHANGED <<mode, kind, self, self0, other, rt, pc, local, ret>>
  /\ UNCHANGED deserVars

\* thread t enters StickerSet.to_dict: data = super().to_dict()
StickerSet_to_dict_super(t) ==
  /\ mode = "object" /\ kind = "StickerSet"
  /\ pc[t] = "idle" /\ ops[t] < MaxThreadOps
  /\ local' = [local EXCEPT ![t] = TelegramObject_to_dict(self)]
  /\ pc' = [pc EXCEPT ![t] = "flatten"]
  /\ UNCHANGED <<mode, kind, self, self0, other, rt, ret, eqres, ops>>
  /\ UNCHANGED deserVars

\* variant of the second half of StickerSet.to_dict that assigns
\* self.stickers instead of data['stickers']
StickerSet_to_dict_flatten_self(t) ==
  /\ pc[t] = "flatten"
  /\ LET flat == FlattenStickers(Get(local[t].dict, "stickers"))
     IN /\ ret' = [ret EXCEPT ![t] =
                     IF IsErr(flat) THEN flat
                     ELSE PyDict(Set(local[t].dict, "stickers", flat))]
        /\ self' = IF IsErr(flat) THEN self
                   ELSE PyObj(self.obj, Set(self.attrs, "stickers", flat))
  /\ local' = [local EXCEPT ![t] = Unset]
  /\ pc' = [pc EXCEPT ![t] = "idle"]
  /\ ops' = [ops EXCEPT ![t] = @ + 1]
  /\ UNCHANGED <<mode, kind, self0, other, rt, eqres>>
  /\ UNCHANGED deserVars

\* thread t finishes StickerSet.to_dict:
\* data['stickers'] = [s.to_dict() for s in data.get('stickers')]; return
StickerSet_to_dict_flatten(t) ==
  /\ pc[t] = "flatten"
  /\ LET flat == FlattenStickers(Get(local[t].dict, "stickers"))
     IN ret' = [ret EXCEPT ![t] =
                  IF IsErr(flat) THEN flat
                  ELSE PyDict(Set(local[t].dict, "stickers", flat))]
  /\ local' = [local EXCEPT ![t] = Unset]
  /\ pc' = [pc EXCEPT ![t] = "idle"]
  /\ ops' = [ops EXCEPT ![t] = @ + 1]
  /\ UNCHANGED <<mode, kind, self, self0, other, rt, eqres>>
  /\ UNCHANGED deserVars

Next ==
  \/ Call_Sticker_de_json
  \/ Call_StickerSet_de_json
  \/ Call_MaskPosition_de_json
  \/ Sticker_RoundTrip
  \/ StickerSet_RoundTrip
  \/ \E t \in Threads : Equals(t)
  \/ \E t \in Threads : StickerSet_to_dict_super(t)
  \/ \E t \in Threads : StickerSet_to_dict_flatten(t)

Spec == Init /\ [][Next]_vars

\* --------------------------------------------------------------- claims
DeJsonOf(k, data) ==
  CASE k = "Sticker" -> Sticker_de_json(data)
    [] k = "StickerSet" -> StickerSet_de_json(data)
    [] k = "MaskPosition" -> MaskPosition_de_json(data)

Attr(o, k) == o.attrs[k]

\* C1: for Sticker, StickerSet and MaskPosition, de_json returns None when
\* the input mapping is None and when it is the empty mapping {}
C1_AbsentPayloadGivesNone ==
  (mode = "deser" /\ payload0 \in {None, PyDict(EmptyMap)})
    => \A i \in 1..Len(results) : results[i] = None

\* C2: for every valid Sticker s, Sticker.de_json(s.to_dict()) succeeds and
\* is equal to s under the file_unique_id equality
C2_StickerRoundTrip ==
  (mode = "object" /\ kind = "Sticker" /\ rt # Unset)
    => /\ IsObj(rt) /\ rt.obj = "Sticker"
       /\ TelegramObject_eq(rt, self)

C2_Witness ==
  /\ mode = "object" /\ kind = "Sticker" /\ IsObj(rt)
  /\ Attr(self, "thumb") = None /\ Attr(self, "mask_position") # None
  /\ Attr(self, "emoji") = None /\ Attr(self, "file_size") # None

\* C3: for every valid StickerSet ss, StickerSet.de_json(ss.to_dict())
\* succeeds and its stickers have the length of ss.stickers and, at every
\* index, a Sticker equal to the one of ss
C3_StickerSetRoundTrip ==
  (mode = "object" /\ kind = "StickerSet" /\ rt # Unset)
    => /\ IsObj(rt) /\ rt.obj = "StickerSet"
       /\ IsList(Attr(rt, "stickers"))
       /\ Len(Attr(rt, "stickers").list) = Len(Attr(self, "stickers").list)
       /\ \A i \in 1..Len(Attr(self, "stickers").list) :
            /\ IsObj(Attr(rt, "stickers").list[i])
            /\ TelegramObject_eq(Attr(rt, "stickers").list[i],
                                 Attr(self, "stickers").list[i])

C3_Witness ==
  /\ mode = "object" /\ kind = "StickerSet" /\ IsObj(rt)
  /\ Len(Attr(self, "stickers").list) = 2
  /\ Attr(self, "stickers").list[1] # Attr(self, "stickers").list[2]
  /\ Len(Attr(rt, "stickers").list) = 2

\* a raw element that cannot be deserialized: a non-empty mapping that
\* lacks a required key or whose width or height is not a number
BadElem(e) ==
  /\ IsDict(e) /\ DOMAIN e.dict # {}
  /\ \/ ~(Sticker_required \subseteq DOMAIN e.dict)
     \/ IsErr(int(e.dict["width"]))
     \/ IsErr(int(e.dict["height"]))

HasBadElem(data) ==
  /\ IsDict(data) /\ "stickers" \in DOMAIN data.dict
  /\ IsList(data.dict["stickers"])
  /\ \E i \in 1..Len(data.dict["stickers"].list) :
       BadElem(data.dict["stickers"].list[i])

\* C4: when an element of the raw stickers sequence fails to deserialize,
\* StickerSet.de_json fails as a whole and returns no StickerSet
C4_BadElementFailsSet ==
  (mode = "deser" /\ kind = "StickerSet" /\ HasBadElem(payload0))
    => \A i \in 1..Len(results) : IsErr(results[i])

C4_Witness ==
  /\ mode = "deser" /\ kind = "StickerSet" /\ HasBadElem(payload0)
  /\ Len(payload0.dict["stickers"].list) = 2
  /\ ~BadElem(payload0.dict["stickers"].list[1])
  /\ Len(results) >= 1 /\ IsErr(results[1])

\* C5: two Sticker instances are equal exactly when their file_unique_id
\* is the same, whatever their other fields
C5_StickerEqByUniqueId ==
  (mode = "object" /\ kind = "Sticker")
    => \A t \in Threads :
         eqres[t] # Unset =>
           eqres[t] = PyBool(Attr(self, "file_unique_id")
                               = Attr(other, "file_unique_id"))

C5_Witness ==
  /\ mode = "object" /\ kind = "Sticker"
  /\ eqres[1] = PyBool(TRUE)
  /\ Attr(self, "width") # Attr(other, "width")
  /\ Attr(self, "file_id") # Attr(other, "file_id")
  /\ Attr(self, "emoji") # Attr(other, "emoji")

\* C6: two StickerSet instances are equal exactly when their name is the
\* same, whatever their title, flags, thumb and stickers
C6_StickerSetEqByName ==
  (mode = "object" /\ kind = "StickerSet")
    => \A t \in Threads :
         eqres[t] # Unset =>
           eqres[t] = PyBool(Attr(self, "name") = Attr(other, "name"))

C6_Witness ==
  /\ mode = "object" /\ kind = "StickerSet"
  /\ eqres[1] = PyBool(TRUE)
  /\ Attr(self, "stickers") # Attr(other, "stickers")
  /\ Attr(self, "title") # Attr(other, "title")
  /\ Attr(self, "thumb") # Attr(other, "thumb")

\* C7: de_json leaves the caller's mapping as it was: same keys, same
\* values, thumb, mask_position and stickers still raw
C7_InputUnchanged ==
  mode = "deser" => payload = payload0

\* a payload that is a valid one extended with the key k
ExtendedWith(k) ==
  /\ mode = "deser" /\ IsDict(payload0) /\ k \in DOMAIN payload0.dict
  /\ IsObj(DeJsonOf(kind, PyDict(Del(payload0.dict, k))).ret)

AcceptedAndDiscarded(k) ==
  (ExtendedWith(k) /\ Len(results) >= 1)
    => results[1] = DeJsonOf(kind, PyDict(Del(payload0.dict, k))).ret

C9_SharedStateUnchanged ==
  (mode = "object" /\ kind = "StickerSet")
    => /\ self = self0
       /\ \A t \in Threads :
            ret[t] # Unset => ret[t] = StickerSet_to_dict(self0)

C9_Witness ==
  /\ mode = "object" /\ kind = "StickerSet"
  /\ Len(Attr(self, "stickers").list) = 2
  /\ pc[1] = "flatten" /\ IsDict(ret[2]) /\ eqres[2] # Unset

\* C10: de_json called again on the same valid mapping succeeds again and
\* returns an object equal to the first one, with stickers of the same
\* length and order
C10_Repeatable ==
  (mode = "deser" /\ Len(results) >= 2 /\ IsObj(results[1]))
    => /\ IsObj(results[2])
       /\ TelegramObject_eq(results[2], results[1])
       /\ kind = "StickerSet" =>
            Attr(results[2], "stickers") = Attr(results[1], "stickers")

====
